---- MODULE Spec2Model ----
(***************************************************************************)
(* Model of the technical-analysis engine: strategy definition ->          *)
(* indicator calculation -> signal generation -> portfolio simulation.     *)
(*                                                                         *)
(* Numbers are exact rationals <<num, den>> with den > 0; the float NaN is *)
(* the pair <<0, 0>>.  Series are sequences indexed 1..Len, so the Python  *)
(* position t is the index t + 1.                                          *)
(***************************************************************************)
EXTENDS Integers, Sequences, FiniteSets

VARIABLES
    definition,   \* StrategyEngine.definition (StrategyDefinition)
    price_data,   \* the price series handed to backtest()
    init_cash,    \* portfolio_kwargs["init_cash"]
    fees,         \* portfolio_kwargs["fees"]
    pc,           \* position of the run inside the pipeline
    indicators,   \* result of calculate_indicators: name -> value series
    signals,      \* result of generate_signals: rule name -> boolean series
    entries,      \* result of get_entry_signals
    exits,        \* result of get_exit_signals
    bar,          \* index of the next bar the simulation processes
    cash,         \* free cash of the simulated account
    position,     \* size of the open position (0 when FLAT)
    trades,       \* trade records of the simulated account
    closes,       \* number of LONG -> FLAT transitions taken so far
    result,       \* BacktestResult of _backtest_with_price_series
    sg,           \* one direct call of a SignalGenerator function
    kwargs,       \* keyword arguments handed to the StrategyDefinition constructor
    engine,       \* StrategyEngine._indicators: name -> indicator object
    timestamps,   \* timestamps of the price points handed to the service
    settings_freq, \* vbt.settings.array_wrapper['freq'], a setting of the process
    first_run     \* what the first of two engines returned, once a second one runs

vars == <<definition, price_data, init_cash, fees, pc, indicators, signals,
          entries, exits, bar, cash, position, trades, closes, result, sg,
          kwargs, engine, timestamps, settings_freq, first_run>>

----------------------------------------------------------------------------
(* Bounds of the model *)

SeriesLen == 4
MaxPrice == 2
SigLen == 3
MaxVal == 1

----------------------------------------------------------------------------
(* Exact arithmetic standing in for floats *)

RECURSIVE GCD(_, _)
GCD(a, b) == IF b = 0 THEN a ELSE GCD(b, a % b)

Abs(n) == IF n < 0 THEN -n ELSE n

NaN == <<0, 0>>

IsNaN(x) == x[2] = 0

Norm(n, d) ==
    IF n = 0 THEN <<0, 1>>
    ELSE LET g == GCD(Abs(n), d) IN <<n \div g, d \div g>>

Num(n) == <<n, 1>>

RAdd(x, y) == IF IsNaN(x) \/ IsNaN(y) THEN NaN
              ELSE Norm(x[1] * y[2] + y[1] * x[2], x[2] * y[2])

RSub(x, y) == IF IsNaN(x) \/ IsNaN(y) THEN NaN
              ELSE Norm(x[1] * y[2] - y[1] * x[2], x[2] * y[2])

RMul(x, y) == IF IsNaN(x) \/ IsNaN(y) THEN NaN
              ELSE Norm(x[1] * y[1], x[2] * y[2])

RDiv(x, y) == IF IsNaN(x) \/ IsNaN(y) \/ y[1] = 0 THEN NaN
              ELSE IF y[1] < 0 THEN Norm(-(x[1] * y[2]), x[2] * (-y[1]))
              ELSE Norm(x[1] * y[2], x[2] * y[1])

\* Float comparisons: any comparison with NaN is False.
NumGt(x, y) == ~IsNaN(x) /\ ~IsNaN(y) /\ x[1] * y[2] > y[1] * x[2]
NumLt(x, y) == ~IsNaN(x) /\ ~IsNaN(y) /\ x[1] * y[2] < y[1] * x[2]
NumGe(x, y) == ~IsNaN(x) /\ ~IsNaN(y) /\ x[1] * y[2] >= y[1] * x[2]
NumLe(x, y) == ~IsNaN(x) /\ ~IsNaN(y) /\ x[1] * y[2] <= y[1] * x[2]

----------------------------------------------------------------------------
(* pandas Series operations used by the engine *)

\* >= in place of > : equal values count as the fast one being above
SeriesGt_inclusive(a, b) == [i \in DOMAIN a |-> NumGe(a[i], b[i])]

\* fast_values > slow_values, element-wise
SeriesGt(a, b) == [i \in DOMAIN a |-> NumGt(a[i], b[i])]
SeriesLt(a, b) == [i \in DOMAIN a |-> NumLt(a[i], b[i])]
SeriesGe(a, b) == [i \in DOMAIN a |-> NumGe(a[i], b[i])]
SeriesLe(a, b) == [i \in DOMAIN a |-> NumLe(a[i], b[i])]

\* values > threshold, the scalar broadcast over the series
ScalarGt(a, c) == [i \in DOMAIN a |-> NumGt(a[i], c)]
ScalarLt(a, c) == [i \in DOMAIN a |-> NumLt(a[i], c)]
ScalarGe(a, c) == [i \in DOMAIN a |-> NumGe(a[i], c)]
ScalarNotLe(a, c) == [i \in DOMAIN a |-> ~NumLe(a[i], c)]

\* A circular shift (np.roll): the first position receives the last value.
shift_roll(a) == [i \in DOMAIN a |-> IF i = 1 THEN a[Len(a)] ELSE a[i - 1]]

\* Series.shift(1): the first position has no predecessor and holds NaN
shift(a) == [i \in DOMAIN a |-> IF i = 1 THEN NaN ELSE a[i - 1]]

\* a & b and a | b on boolean series of one index
SeriesAnd(a, b) == [i \in DOMAIN a |-> a[i] /\ b[i]]
SeriesOr(a, b) == [i \in DOMAIN a |-> a[i] \/ b[i]]

\* Series.fillna(value): cells that hold no boolean become value
fillna(a, value) == [i \in DOMAIN a |-> IF a[i] \in BOOLEAN THEN a[i] ELSE value]

\* pd.Series(False, index=index)
AllFalse(index) == [i \in index |-> FALSE]

----------------------------------------------------------------------------
(* SignalGenerator *)

\* A level test in place of the edge test: the shifted operand is dropped.
crossover_signal_level(fast_values, slow_values, direction) ==
    IF direction = "above"
    THEN SeriesGt(fast_values, slow_values)
    ELSE SeriesLt(fast_values, slow_values)

crossover_signal(fast_values, slow_values, direction) ==
    IF direction = "above"
    THEN SeriesAnd(SeriesGt(fast_values, slow_values),
                   SeriesLe(shift(fast_values), shift(slow_values)))
    ELSE SeriesAnd(SeriesLt(fast_values, slow_values),
                   SeriesGe(shift(fast_values), shift(slow_values)))

\* ABOVE written as "not (values <= threshold)", which is True on NaN.
threshold_signal_negated(values, threshold, condition) ==
    IF condition = "above"
    THEN ScalarNotLe(values, threshold)
    ELSE ScalarLt(values, threshold)

\* ABOVE written with >= : fires when the value equals the threshold.
threshold_signal_inclusive(values, threshold, condition) ==
    IF condition = "above"
    THEN ScalarGe(values, threshold)
    ELSE ScalarLt(values, threshold)

threshold_signal(values, threshold, condition) ==
    IF condition = "above"
    THEN ScalarGt(values, threshold)
    ELSE ScalarLt(values, threshold)

----------------------------------------------------------------------------
(* IndicatorFactory: the indicators of the model's strategies *)

RECURSIVE SumRange(_, _, _)
SumRange(a, lo, hi) == IF lo > hi THEN Num(0) ELSE RAdd(a[lo], SumRange(a, lo + 1, hi))

\* a rolling mean whose window is centred one point ahead: it reads data[i + 1]
SMA_calculate_ahead(data, window) ==
    [i \in DOMAIN data |->
        IF i + 1 < window \/ i + 1 > Len(data) THEN NaN
        ELSE RDiv(SumRange(data, i - window + 2, i + 1), Num(window))]

\* vbt.MA.run(data, window, ewm=False).ma: rolling mean, NaN until window points
SMA_calculate(data, window) ==
    [i \in DOMAIN data |->
        IF i < window THEN NaN
        ELSE RDiv(SumRange(data, i - window + 1, i), Num(window))]

\* the recurrence ema[t] = alpha*price[t] + (1-alpha)*ema[t-1], alpha = 2/(window+1)
RECURSIVE EwmMean(_, _, _)
EwmMean(data, window, i) ==
    IF i = 1 THEN data[1]
    ELSE LET alpha == Norm(2, window + 1)
         IN RAdd(RMul(alpha, data[i]),
                 RMul(RSub(Num(1), alpha), EwmMean(data, window, i - 1)))

\* an EMA that drops the warm-up positions instead of keeping them as NaN
EMA_calculate_dropna(data, window) ==
    [i \in 1..(Len(data) - window + 1) |-> EwmMean(data, window, i + window - 1)]

\* vbt.MA.run(data, window, ewm=True).ma: NaN until window points
EMA_calculate(data, window) ==
    [i \in DOMAIN data |-> IF i < window THEN NaN ELSE EwmMean(data, window, i)]

\* the rise and the fall of the price from position i - 1 to position i
Up(data, i) ==
    LET delta == RSub(data[i], data[i - 1])
    IN IF delta[1] > 0 THEN delta ELSE Num(0)

Down(data, i) ==
    LET delta == RSub(data[i], data[i - 1])
    IN IF delta[1] < 0 THEN RSub(Num(0), delta) ELSE Num(0)

RECURSIVE SumUp(_, _, _)
SumUp(data, lo, hi) == IF lo > hi THEN Num(0) ELSE RAdd(Up(data, lo), SumUp(data, lo + 1, hi))

RECURSIVE SumDown(_, _, _)
SumDown(data, lo, hi) ==
    IF lo > hi THEN Num(0) ELSE RAdd(Down(data, lo), SumDown(data, lo + 1, hi))

\* an RSI that is not folded into 0..100: the ratio rs itself, times 100
RSI_calculate_ratio(data, window) ==
    [i \in DOMAIN data |->
        IF i <= window THEN NaN
        ELSE LET roll_up == RDiv(SumUp(data, i - window + 1, i), Num(window))
                 roll_down == RDiv(SumDown(data, i - window + 1, i), Num(window))
             IN RMul(Num(100), RDiv(roll_up, roll_down))]

\* vbt.RSI.run(data, window).rsi with the library default ewm=False: rolling means
\* of the rises and of the falls over window differences, rs = up / down and
\* rsi = 100 - 100 / (1 + rs); NaN for the first window positions; a float
\* division by zero gives rs = inf (rsi 100) or, for 0 / 0, NaN
RSI_calculate(data, window) ==
    [i \in DOMAIN data |->
        IF i <= window THEN NaN
        ELSE LET roll_up == RDiv(SumUp(data, i - window + 1, i), Num(window))
                 roll_down == RDiv(SumDown(data, i - window + 1, i), Num(window))
             IN IF roll_down[1] = 0
                THEN IF roll_up[1] = 0 THEN NaN ELSE Num(100)
                ELSE RSub(Num(100),
                          RDiv(Num(100), RAdd(Num(1), RDiv(roll_up, roll_down))))]

\* the MACD line: vbt.MACD.run(...).macd with the library default macd_ewm=False,
\* the fast rolling mean minus the slow one
MACD_calculate(data, fast, slow, signal) ==
    LET fast_ma == SMA_calculate(data, fast)
        slow_ma == SMA_calculate(data, slow)
    IN [i \in DOMAIN data |-> RSub(fast_ma[i], slow_ma[i])]

\* the signal line: vbt.MACD.run(...).signal, the rolling mean of the MACD line over
\* signal points, NaN until signal points of the MACD line exist
MACD_signal(data, fast, slow, signal) ==
    LET macd == MACD_calculate(data, fast, slow, signal)
        first == IF slow > fast THEN slow ELSE fast
    IN [i \in DOMAIN data |->
           IF i < first + signal - 1 THEN NaN
           ELSE RDiv(SumRange(macd, i - signal + 1, i), Num(signal))]

create_indicator(ind_def, data) ==
    CASE ind_def.type = "EMA" -> EMA_calculate(data, ind_def.params.window)
      [] ind_def.type = "SMA" -> SMA_calculate(data, ind_def.params.window)
      [] ind_def.type = "RSI" -> RSI_calculate(data, ind_def.params.window)
      [] ind_def.type = "MACD" ->
             MACD_calculate(data, ind_def.params.fast, ind_def.params.slow,
                            ind_def.params.signal)

----------------------------------------------------------------------------
(* StrategyEngine *)

EmptyDict == [k \in {} |-> <<>>]

\* d[key] = value on a dict: a key already present is overwritten
DictSet(d, key, value) ==
    [k \in DOMAIN d \cup {key} |-> IF k = key THEN value ELSE d[k]]

RECURSIVE CalcLoop(_, _, _, _)
CalcLoop(ind_defs, data, i, results) ==
    IF i > Len(ind_defs) THEN results
    ELSE CalcLoop(ind_defs, data, i + 1,
                  DictSet(results, ind_defs[i].name, create_indicator(ind_defs[i], data)))

calculate_indicators(def, data) == CalcLoop(def.indicators, data, 1, EmptyDict)

RECURSIVE CrossoverLoop(_, _, _, _)
CrossoverLoop(rules, inds, i, sigs) ==
    IF i > Len(rules) THEN sigs
    ELSE LET rule == rules[i]
             signal == crossover_signal(inds[rule.fast_indicator],
                                        inds[rule.slow_indicator],
                                        rule.direction)
         IN CrossoverLoop(rules, inds, i + 1,
                          DictSet(sigs, rule.name, fillna(signal, FALSE)))

RECURSIVE ThresholdLoop(_, _, _, _)
ThresholdLoop(rules, inds, i, sigs) ==
    IF i > Len(rules) THEN sigs
    ELSE LET rule == rules[i]
             signal == threshold_signal(inds[rule.indicator],
                                        rule.threshold,
                                        rule.condition)
         IN ThresholdLoop(rules, inds, i + 1,
                          DictSet(sigs, rule.name, fillna(signal, FALSE)))

generate_signals(def, inds) ==
    ThresholdLoop(def.threshold_rules, inds, 1,
                  CrossoverLoop(def.crossover_rules, inds, 1, EmptyDict))

AllRules(def) == def.crossover_rules \o def.threshold_rules

IsEntry(rule) == rule.signal_type = "entry"
IsExit(rule) == rule.signal_type = "exit"

entry_rules(def) == SelectSeq(AllRules(def), IsEntry)
exit_rules(def) == SelectSeq(AllRules(def), IsExit)

\* list(signals.values())[0].index: every series of a run has the price index
FirstIndex(sigs) == DOMAIN sigs[CHOOSE k \in DOMAIN sigs : TRUE]

\* list(signals.values())[0] on an empty dict raises IndexError
RaisesIndexError(rules, sigs) == rules = <<>> /\ DOMAIN sigs = {}

RECURSIVE CombineAnd(_, _, _, _)
CombineAnd(rules, sigs, i, combined) ==
    IF i > Len(rules) THEN combined
    ELSE CombineAnd(rules, sigs, i + 1, SeriesAnd(combined, sigs[rules[i].name]))

RECURSIVE CombineOr(_, _, _, _)
CombineOr(rules, sigs, i, combined) ==
    IF i > Len(rules) THEN combined
    ELSE CombineOr(rules, sigs, i + 1, SeriesOr(combined, sigs[rules[i].name]))

get_entry_signals(def, sigs) ==
    LET rules == entry_rules(def)
    IN IF rules = <<>> THEN AllFalse(FirstIndex(sigs))
       ELSE CombineAnd(rules, sigs, 2, sigs[rules[1].name])

get_exit_signals(def, sigs) ==
    LET rules == exit_rules(def)
    IN IF rules = <<>> THEN AllFalse(FirstIndex(sigs))
       ELSE CombineOr(rules, sigs, 2, sigs[rules[1].name])

----------------------------------------------------------------------------
(* vbt.Portfolio.from_signals(price_data, entries, exits, init_cash, fees)  *)
(* with the library defaults the call leaves in place: long only, size =    *)
(* all cash, no accumulation, conflicting signals of one bar are ignored,   *)
(* orders fill at the bar's close.                                          *)

Account(c, p, tr) == [cash |-> c, position |-> p, trades |-> tr]

IsLong(p) == NumGt(p, Num(0))

\* buy with all cash: size = cash / (price * (1 + fees))
OpenLong(acct, i, price, fee) ==
    LET size == RDiv(acct.cash, RMul(price, RAdd(Num(1), fee)))
        paid == RSub(acct.cash, RMul(size, price))
    IN Account(Num(0), size,
               Append(acct.trades,
                      [entry_idx |-> i, entry_price |-> price, size |-> size,
                       entry_fees |-> paid, exit_idx |-> 0, exit_price |-> NaN,
                       pnl |-> NaN, status |-> "Open"]))

\* The sale valued at the entry price in place of the bar's price.
CloseLong_at_entry_price(acct, i, price, fee) ==
    LET n == Len(acct.trades)
        tr == acct.trades[n]
        gross == RMul(acct.position, tr.entry_price)
        exit_fees == RMul(gross, fee)
    IN Account(RAdd(acct.cash, RSub(gross, exit_fees)), Num(0),
               [acct.trades EXCEPT ![n] =
                    [tr EXCEPT !.exit_idx = i, !.exit_price = price,
                               !.pnl = RSub(Num(0), RAdd(tr.entry_fees, exit_fees)),
                               !.status = "Closed"]])

\* sell the whole position: cash += size * price * (1 - fees); the trade closes
CloseLong(acct, i, price, fee) ==
    LET n == Len(acct.trades)
        tr == acct.trades[n]
        gross == RMul(acct.position, price)
        exit_fees == RMul(gross, fee)
        pnl == RSub(RSub(RMul(RSub(price, tr.entry_price), tr.size), tr.entry_fees),
                    exit_fees)
    IN Account(RAdd(acct.cash, RSub(gross, exit_fees)), Num(0),
               [acct.trades EXCEPT ![n] =
                    [tr EXCEPT !.exit_idx = i, !.exit_price = price,
                               !.pnl = pnl, !.status = "Closed"]])

\* A conflicting bar resolved in favour of the exit signal.
from_signals_bar_exit_wins(acct, i, price, is_entry, is_exit, fee) ==
    IF is_exit
    THEN IF IsLong(acct.position) THEN CloseLong(acct, i, price, fee) ELSE acct
    ELSE IF is_entry /\ ~IsLong(acct.position) THEN OpenLong(acct, i, price, fee)
    ELSE acct

from_signals_bar(acct, i, price, is_entry, is_exit, fee) ==
    IF is_entry /\ is_exit THEN acct
    ELSE IF is_entry
    THEN IF IsLong(acct.position) THEN acct ELSE OpenLong(acct, i, price, fee)
    ELSE IF is_exit
    THEN IF IsLong(acct.position) THEN CloseLong(acct, i, price, fee) ELSE acct
    ELSE acct

\* the account a portfolio carries over from the engine that ran before
init_account_shared(c0) ==
    IF pc = "done" THEN Account(cash, position, trades) ELSE Account(c0, Num(0), <<>>)

\* from_signals(..., init_cash=init_cash): a new portfolio holds the initial cash,
\* no position and no trade
init_account(c0) == Account(c0, Num(0), <<>>)

\* the first upto bars of the pass, from the account acct at bar i
RECURSIVE RunBars(_, _, _, _, _, _, _)
RunBars(acct, data, en, ex, fee, i, upto) ==
    IF i > upto THEN acct
    ELSE RunBars(from_signals_bar(acct, i, data[i], en[i], ex[i], fee),
                 data, en, ex, fee, i + 1, upto)

\* portfolio.value().iloc[-1]: cash plus the position marked at the last close
final_value(acct, data) == RAdd(acct.cash, RMul(acct.position, data[Len(data)]))

\* portfolio.trades.records_readable: one row per trade, an open trade included,
\* marked at the last close
records_readable(acct, data) ==
    [k \in DOMAIN acct.trades |->
        LET tr == acct.trades[k]
            last == data[Len(data)]
        IN IF tr.status = "Closed" THEN tr
           ELSE [tr EXCEPT !.exit_idx = Len(data), !.exit_price = last,
                           !.pnl = RSub(RMul(RSub(last, tr.entry_price), tr.size),
                                        tr.entry_fees)]]

\* portfolio.trades.win_rate(): winning rows over all rows, NaN without rows
trades_win_rate(records) ==
    LET winning == {k \in DOMAIN records : NumGt(records[k].pnl, Num(0))}
    IN RDiv(Num(Cardinality(winning)), Num(Len(records)))

\* the metrics _backtest_with_price_series reads off the portfolio
BacktestResult(acct, data, cash0) ==
    LET records == records_readable(acct, data)
    IN [total_return |-> RSub(RDiv(final_value(acct, data), cash0), Num(1)),
        win_rate |-> trades_win_rate(records),
        total_trades |-> Len(records),
        final_value |-> final_value(acct, data)]

----------------------------------------------------------------------------
(* Inputs of the model *)

Prices == {Num(p) : p \in 1..MaxPrice}
PriceSeries == [1..SeriesLen -> Prices]

Indicator(n, ty, w) == [name |-> n, type |-> ty, params |-> [window |-> w]]

IndicatorLists ==
    { <<Indicator("a", "EMA", 2), Indicator("b", "SMA", 2)>>,
      <<Indicator("a", "SMA", 2), Indicator("b", "SMA", 3)>> }

RuleNames == {"r1", "r2"}
Directions == {"above", "below"}
SignalTypes == {"entry", "exit"}
Thresholds == {<<3, 2>>}

CrossoverRule ==
    [name : RuleNames, fast_indicator : {"a"}, slow_indicator : {"b"},
     direction : Directions, signal_type : SignalTypes]

ThresholdRule ==
    [name : RuleNames, indicator : {"a"}, threshold : Thresholds,
     condition : Directions, signal_type : SignalTypes]

CrossoverRuleLists == {<<>>} \cup {<<r>> : r \in CrossoverRule}
ThresholdRuleLists == {<<>>} \cup {<<r>> : r \in ThresholdRule}

\* every StrategyDefinition the validators of config.py accept, within the bounds
StrategyDefinition ==
    [indicators : IndicatorLists,
     crossover_rules : CrossoverRuleLists,
     threshold_rules : ThresholdRuleLists]

InitialCash == {Num(1000)}
Fees == {Num(0), <<1, 10>>}

Values == {NaN} \cup {Num(v) : v \in 0..MaxVal}
ValueSeries == [1..SigLen -> Values]

NoDefinition == [indicators |-> <<>>, crossover_rules |-> <<>>, threshold_rules |-> <<>>]

NoResult == [total_return |-> NaN, win_rate |-> NaN, total_trades |-> 0,
             final_value |-> NaN]

\* no engine has run before this one
NoRun == [ran |-> FALSE, indicators |-> EmptyDict, signals |-> EmptyDict,
          entries |-> <<>>, exits |-> <<>>, result |-> NoResult]

NoCall == [fn |-> "none", fast_values |-> <<>>, slow_values |-> <<>>,
           direction |-> "none", threshold |-> NaN, out |-> <<>>]

----------------------------------------------------------------------------
(* The run of StrategyEngine.backtest inside _backtest_with_price_series *)

Init ==
    /\ definition \in StrategyDefinition
    /\ price_data \in PriceSeries
    /\ init_cash \in InitialCash
    /\ fees \in Fees
    /\ pc = "calculate_indicators"
    /\ indicators = EmptyDict
    /\ signals = EmptyDict
    /\ entries = <<>>
    /\ exits = <<>>
    /\ bar = 1
    /\ cash = init_cash
    /\ position = Num(0)
    /\ trades = <<>>
    /\ closes = 0
    /\ result = NoResult
    /\ sg = NoCall
    /\ kwargs = NoDefinition
    /\ engine = EmptyDict
    /\ timestamps = [i \in 1..SeriesLen |-> i]
    /\ settings_freq = "None"
    /\ first_run = NoRun

CalculateIndicators ==
    /\ pc = "calculate_indicators"
    /\ indicators' = calculate_indicators(definition, price_data)
    /\ pc' = "generate_signals"
    /\ UNCHANGED <<definition, price_data, init_cash, fees, signals, entries, exits,
                   bar, cash, position, trades, closes, result, sg,
                   kwargs, engine, timestamps, settings_freq, first_run>>

GenerateSignals ==
    /\ pc = "generate_signals"
    /\ signals' = generate_signals(definition, indicators)
    /\ pc' = "get_entry_signals"
    /\ UNCHANGED <<definition, price_data, init_cash, fees, indicators, entries, exits,
                   bar, cash, position, trades, closes, result, sg,
                   kwargs, engine, timestamps, settings_freq, first_run>>

GetEntrySignals ==
    /\ pc = "get_entry_signals"
    /\ IF RaisesIndexError(entry_rules(definition), signals)
       THEN pc' = "failed" /\ UNCHANGED entries
       ELSE pc' = "get_exit_signals"
            /\ entries' = get_entry_signals(definition, signals)
    /\ UNCHANGED <<definition, price_data, init_cash, fees, indicators, signals, exits,
                   bar, cash, position, trades, closes, result, sg,
                   kwargs, engine, timestamps, settings_freq, first_run>>

GetExitSignals ==
    /\ pc = "get_exit_signals"
    /\ IF RaisesIndexError(exit_rules(definition), signals)
       THEN pc' = "failed" /\ UNCHANGED exits
       ELSE pc' = "from_signals"
            /\ exits' = get_exit_signals(definition, signals)
    /\ UNCHANGED <<definition, price_data, init_cash, fees, indicators, signals, entries,
                   bar, cash, position, trades, closes, result, sg,
                   kwargs, engine, timestamps, settings_freq, first_run>>

\* one bar of the left-to-right pass of from_signals
SimulateBar ==
    /\ pc = "from_signals"
    /\ bar <= Len(price_data)
    /\ LET acct == from_signals_bar(Account(cash, position, trades), bar,
                                    price_data[bar], entries[bar], exits[bar], fees)
       IN /\ cash' = acct.cash
          /\ position' = acct.position
          /\ trades' = acct.trades
          /\ closes' = IF IsLong(position) /\ ~IsLong(acct.position)
                       THEN closes + 1 ELSE closes
    /\ bar' = bar + 1
    /\ pc' = IF bar = Len(price_data) THEN "extract" ELSE "from_signals"
    /\ UNCHANGED <<definition, price_data, init_cash, fees, indicators, signals,
                   entries, exits, result, sg,
                   kwargs, engine, timestamps, settings_freq, first_run>>

ExtractResults ==
    /\ pc = "extract"
    /\ result' = BacktestResult(Account(cash, position, trades), price_data, init_cash)
    /\ pc' = "done"
    /\ UNCHANGED <<definition, price_data, init_cash, fees, indicators, signals,
                   entries, exits, bar, cash, position, trades, closes, sg,
                   kwargs, engine, timestamps, settings_freq, first_run>>

Next ==
    \/ CalculateIndicators
    \/ GenerateSignals
    \/ GetEntrySignals
    \/ GetExitSignals
    \/ SimulateBar
    \/ ExtractResults

Spec == Init /\ [][Next]_vars

\* engine2 = StrategyEngine(strategy) after the run of engine1: what the first engine
\* returned is kept, and the second engine starts on the same strategy and series
SecondEngine ==
    /\ pc = "done"
    /\ ~first_run.ran
    /\ first_run' = [ran |-> TRUE, indicators |-> indicators, signals |-> signals,
                     entries |-> entries, exits |-> exits, result |-> result]
    /\ LET acct == init_account(init_cash)
       IN /\ cash' = acct.cash
          /\ position' = acct.position
          /\ trades' = acct.trades
    /\ indicators' = EmptyDict
    /\ signals' = EmptyDict
    /\ entries' = <<>>
    /\ exits' = <<>>
    /\ bar' = 1
    /\ closes' = 0
    /\ result' = NoResult
    /\ pc' = "calculate_indicators"
    /\ UNCHANGED <<definition, price_data, init_cash, fees, sg, kwargs, engine,
                   timestamps, settings_freq>>

\* the runs that reach the simulation: a definition with no rule at all stops in
\* get_entry_signals
InitLookAhead ==
    /\ Init
    /\ definition.crossover_rules # <<>> \/ definition.threshold_rules # <<>>

SpecLookAhead == InitLookAhead /\ [][Next]_vars

\* the same strategy run twice on the same series, by two engines
NextTwice == Next \/ SecondEngine

SpecTwice == InitLookAhead /\ [][NextTwice]_vars

----------------------------------------------------------------------------
(* Direct calls of the SignalGenerator functions on arbitrary series *)

InitSignal ==
    /\ sg \in [fn : {"none"}, fast_values : ValueSeries, slow_values : ValueSeries,
               direction : {"none"}, threshold : {NaN}, out : {<<>>}]
    /\ definition = NoDefinition
    /\ price_data = <<>>
    /\ init_cash = Num(0)
    /\ fees = Num(0)
    /\ pc = "idle"
    /\ indicators = EmptyDict
    /\ signals = EmptyDict
    /\ entries = <<>>
    /\ exits = <<>>
    /\ bar = 1
    /\ cash = Num(0)
    /\ position = Num(0)
    /\ trades = <<>>
    /\ closes = 0
    /\ result = NoResult
    /\ kwargs = NoDefinition
    /\ engine = EmptyDict
    /\ timestamps = <<>>
    /\ settings_freq = "None"
    /\ first_run = NoRun

CallCrossoverSignal ==
    /\ sg.fn = "none"
    /\ \E d \in Directions :
          sg' = [sg EXCEPT !.fn = "crossover_signal", !.direction = d,
                           !.out = crossover_signal(sg.fast_values, sg.slow_values, d)]
    /\ UNCHANGED <<definition, price_data, init_cash, fees, pc, indicators, signals,
                   entries, exits, bar, cash, position, trades, closes, result,
                   kwargs, engine, timestamps, settings_freq, first_run>>

CallThresholdSignal ==
    /\ sg.fn = "none"
    /\ \E c \in Directions, th \in {Num(v) : v \in 0..MaxVal} :
          sg' = [sg EXCEPT !.fn = "threshold_signal", !.direction = c, !.threshold = th,
                           !.out = threshold_signal(sg.fast_values, th, c)]
    /\ UNCHANGED <<definition, price_data, init_cash, fees, pc, indicators, signals,
                   entries, exits, bar, cash, position, trades, closes, result,
                   kwargs, engine, timestamps, settings_freq, first_run>>

NextSignal == CallCrossoverSignal \/ CallThresholdSignal

SpecSignal == InitSignal /\ [][NextSignal]_vars

----------------------------------------------------------------------------
(* config.py: construction of the parameter objects and of the            *)
(* StrategyDefinition, then StrategyEngine.__init__.  An object of a      *)
(* parameter class is the record of its fields with its class in cls.     *)

\* Field(ge = lo, le = hi)
InRange(v, lo, hi) == v >= lo /\ v <= hi

EMAConfig(kw) == InRange(kw.window, 2, 200)

SMAConfig(kw) == InRange(kw.window, 2, 200)

RSIConfig(kw) == InRange(kw.window, 2, 100)

\* a check that lets slow = fast through
validate_periods_strict(kw) == ~(kw.slow < kw.fast)

\* raises when slow <= fast
validate_periods(kw) == ~(kw.slow <= kw.fast)

\* the field bounds first, the model validator after them
MACDConfig(kw) ==
    /\ InRange(kw.fast, 2, 50)
    /\ InRange(kw.slow, 2, 100)
    /\ InRange(kw.signal, 2, 50)
    /\ validate_periods(kw)

\* the constructor of the class named by kw.cls accepts the arguments
IndicatorParams(kw) ==
    CASE kw.cls = "EMAConfig" -> EMAConfig(kw)
      [] kw.cls = "SMAConfig" -> SMAConfig(kw)
      [] kw.cls = "RSIConfig" -> RSIConfig(kw)
      [] kw.cls = "MACDConfig" -> MACDConfig(kw)

IndicatorType == {"EMA", "SMA", "RSI", "MACD"}

ParamClasses == {"EMAConfig", "SMAConfig", "RSIConfig", "MACDConfig"}

\* type is an IndicatorType and params an instance of any IndicatorParams class
IndicatorDefinition(kw) == kw.type \in IndicatorType /\ kw.params.cls \in ParamClasses

IndicatorNames(inds) == {inds[i].name : i \in DOMAIN inds}

\* a check that can never raise
unique_indicator_names_never(inds) == ~(Len(inds) < Cardinality(IndicatorNames(inds)))

\* raises when len(names) != len(set(names))
unique_indicator_names(inds) == ~(Len(inds) # Cardinality(IndicatorNames(inds)))

\* a check that skips the slow side of a crossover rule
validate_rule_references_fast_only(kw) ==
    LET indicator_names == IndicatorNames(kw.indicators)
    IN /\ \A i \in DOMAIN kw.crossover_rules :
              kw.crossover_rules[i].fast_indicator \in indicator_names
       /\ \A i \in DOMAIN kw.threshold_rules :
              kw.threshold_rules[i].indicator \in indicator_names

\* raises on the first rule that names no indicator of the definition
validate_rule_references(kw) ==
    LET indicator_names == IndicatorNames(kw.indicators)
    IN /\ \A i \in DOMAIN kw.crossover_rules :
              /\ kw.crossover_rules[i].fast_indicator \in indicator_names
              /\ kw.crossover_rules[i].slow_indicator \in indicator_names
       /\ \A i \in DOMAIN kw.threshold_rules :
              kw.threshold_rules[i].indicator \in indicator_names

\* StrategyDefinition(**kw) returns: min_items, each indicator, the field
\* validator, then the model validator
StrategyDefinitionAccepts(kw) ==
    /\ Len(kw.indicators) >= 1
    /\ \A i \in DOMAIN kw.indicators : IndicatorDefinition(kw.indicators[i])
    /\ unique_indicator_names(kw.indicators)
    /\ validate_rule_references(kw)

\* what a creator returns when the attribute it reads does not exist
AttributeError == [kind |-> "AttributeError"]

create_ema(config) ==
    IF "window" \in DOMAIN config
    THEN [kind |-> "EMA", window |-> config.window] ELSE AttributeError

create_sma(config) ==
    IF "window" \in DOMAIN config
    THEN [kind |-> "SMA", window |-> config.window] ELSE AttributeError

create_rsi(config) ==
    IF "window" \in DOMAIN config
    THEN [kind |-> "RSI", window |-> config.window] ELSE AttributeError

create_macd(config) ==
    IF {"fast", "slow", "signal"} \subseteq DOMAIN config
    THEN [kind |-> "MACD", fast |-> config.fast, slow |-> config.slow,
          signal |-> config.signal]
    ELSE AttributeError

\* IndicatorFactory.create_indicator: the creator of definition.type gets
\* definition.params whatever its class
IndicatorFactory_create_indicator(ind_def) ==
    CASE ind_def.type = "EMA" -> create_ema(ind_def.params)
      [] ind_def.type = "SMA" -> create_sma(ind_def.params)
      [] ind_def.type = "RSI" -> create_rsi(ind_def.params)
      [] ind_def.type = "MACD" -> create_macd(ind_def.params)

\* the loop of _setup_indicators: stops at the first creator that raises
RECURSIVE SetupLoop(_, _, _)
SetupLoop(ind_defs, i, objs) ==
    IF i > Len(ind_defs) THEN [raised |-> FALSE, objs |-> objs]
    ELSE LET indicator == IndicatorFactory_create_indicator(ind_defs[i])
         IN IF indicator = AttributeError
            THEN [raised |-> TRUE, objs |-> objs]
            ELSE SetupLoop(ind_defs, i + 1, DictSet(objs, ind_defs[i].name, indicator))

setup_indicators(def) == SetupLoop(def.indicators, 1, EmptyDict)

\* constructor arguments of the model
Windows == {1, 2, 100, 101, 200, 201}

WindowKwargs == [cls : {"EMAConfig", "SMAConfig", "RSIConfig"}, window : Windows]

MACDKwargs == [cls : {"MACDConfig"}, fast : {1, 12, 26, 51}, slow : {12, 26, 101},
               signal : {9}]

ParamsKwargs == WindowKwargs \cup MACDKwargs

IndicatorKwargs == [name : {"a", "b"}, type : IndicatorType, params : ParamsKwargs]

SecondIndicatorKwargs ==
    [name : {"a", "b"}, type : {"SMA"}, params : [cls : {"SMAConfig"}, window : {2}]]

IndicatorKwargsLists ==
    {<<>>} \cup {<<x>> : x \in IndicatorKwargs}
           \cup {<<x, y>> : x \in IndicatorKwargs, y \in SecondIndicatorKwargs}

ReferenceNames == {"a", "b", "c"}

CrossoverRuleKwargs ==
    [name : {"r1"}, fast_indicator : ReferenceNames, slow_indicator : ReferenceNames,
     direction : {"above"}, signal_type : {"entry"}]

ThresholdRuleKwargs ==
    [name : {"r2"}, indicator : ReferenceNames, threshold : Thresholds,
     condition : {"above"}, signal_type : {"exit"}]

StrategyDefinitionKwargs ==
    [indicators : IndicatorKwargsLists,
     crossover_rules : {<<>>} \cup {<<r>> : r \in CrossoverRuleKwargs},
     threshold_rules : {<<>>} \cup {<<r>> : r \in ThresholdRuleKwargs}]

InitConfig ==
    /\ kwargs \in StrategyDefinitionKwargs
    /\ definition = NoDefinition
    /\ pc = "IndicatorParams"
    /\ engine = EmptyDict
    /\ price_data = <<>>
    /\ timestamps = <<>>
    /\ settings_freq = "None"
    /\ first_run = NoRun
    /\ init_cash = Num(0)
    /\ fees = Num(0)
    /\ indicators = EmptyDict
    /\ signals = EmptyDict
    /\ entries = <<>>
    /\ exits = <<>>
    /\ bar = 1
    /\ cash = Num(0)
    /\ position = Num(0)
    /\ trades = <<>>
    /\ closes = 0
    /\ result = NoResult
    /\ sg = NoCall

\* the caller builds the parameter object of every indicator
ConstructParams ==
    /\ pc = "IndicatorParams"
    /\ pc' = IF \A i \in DOMAIN kwargs.indicators :
                    IndicatorParams(kwargs.indicators[i].params)
             THEN "StrategyDefinition" ELSE "ValidationError"
    /\ UNCHANGED <<definition, price_data, init_cash, fees, indicators, signals,
                   entries, exits, bar, cash, position, trades, closes, result, sg,
                   kwargs, engine, timestamps, settings_freq, first_run>>

ConstructStrategyDefinition ==
    /\ pc = "StrategyDefinition"
    /\ IF StrategyDefinitionAccepts(kwargs)
       THEN definition' = kwargs /\ pc' = "StrategyEngine"
       ELSE pc' = "ValidationError" /\ UNCHANGED definition
    /\ UNCHANGED <<price_data, init_cash, fees, indicators, signals,
                   entries, exits, bar, cash, position, trades, closes, result, sg,
                   kwargs, engine, timestamps, settings_freq, first_run>>

\* StrategyEngine(definition)
ConstructStrategyEngine ==
    /\ pc = "StrategyEngine"
    /\ LET setup == setup_indicators(definition)
       IN /\ engine' = setup.objs
          /\ pc' = IF setup.raised THEN "AttributeError" ELSE "engine_ready"
    /\ UNCHANGED <<definition, price_data, init_cash, fees, indicators, signals,
                   entries, exits, bar, cash, position, trades, closes, result, sg,
                   kwargs, timestamps, settings_freq, first_run>>

NextConfig == ConstructParams \/ ConstructStrategyDefinition \/ ConstructStrategyEngine

SpecConfig == InitConfig /\ [][NextConfig]_vars

----------------------------------------------------------------------------
(* services.py: analyze_strategy on a list of price points.  The points   *)
(* are the two parallel lists price_data_to_series takes them apart into. *)

\* timestamps of n points: increasing, or with one adjacent pair swapped or equal
TimestampLists(n) ==
    {[i \in 1..n |-> i]}
        \cup {[i \in 1..n |-> IF i = k THEN k + 1 ELSE IF i = k + 1 THEN k ELSE i] :
                 k \in 1..(n - 1)}
        \cup {[i \in 1..n |-> IF i = k + 1 THEN k ELSE i] : k \in 1..(n - 1)}

\* pd.Series(prices, index=pd.DatetimeIndex(timestamps)): the values in the order
\* given, no sorting and no check of the index
price_data_to_series(ts, prices) == prices

ServiceDefinitions == {d \in StrategyDefinition : d.threshold_rules = <<>>}

InitService ==
    /\ \E n \in 0..SeriesLen :
          /\ timestamps \in TimestampLists(n)
          /\ price_data \in [1..n -> Prices]
    /\ definition \in ServiceDefinitions
    /\ settings_freq = "None"
    /\ first_run = NoRun
    /\ pc = "analyze_strategy"
    /\ kwargs = NoDefinition
    /\ engine = EmptyDict
    /\ init_cash = Num(0)
    /\ fees = Num(0)
    /\ indicators = EmptyDict
    /\ signals = EmptyDict
    /\ entries = <<>>
    /\ exits = <<>>
    /\ bar = 1
    /\ cash = Num(0)
    /\ position = Num(0)
    /\ trades = <<>>
    /\ closes = 0
    /\ result = NoResult
    /\ sg = NoCall

\* analyze_strategy up to the call of _analyze_with_price_series: the conversion,
\* then data_info, whose price_series.index[0] raises IndexError on no point
AnalyzeStrategy ==
    /\ pc = "analyze_strategy"
    /\ price_data' = price_data_to_series(timestamps, price_data)
    /\ pc' = IF Len(price_data) = 0 THEN "failed" ELSE "calculate_indicators"
    /\ UNCHANGED <<definition, init_cash, fees, indicators, signals,
                   entries, exits, bar, cash, position, trades, closes, result, sg,
                   kwargs, engine, timestamps, settings_freq, first_run>>

\* _analyze_with_price_series after calculate_indicators: signals only when the
\* strategy has a rule, all-False series otherwise
AnalyzeSignals ==
    /\ pc = "generate_signals"
    /\ IF definition.crossover_rules # <<>> \/ definition.threshold_rules # <<>>
       THEN LET sigs == generate_signals(definition, indicators)
            IN /\ signals' = sigs
               /\ entries' = get_entry_signals(definition, sigs)
               /\ exits' = get_exit_signals(definition, sigs)
       ELSE /\ signals' = EmptyDict
            /\ entries' = AllFalse(DOMAIN price_data)
            /\ exits' = AllFalse(DOMAIN price_data)
    /\ pc' = "analysed"
    /\ UNCHANGED <<definition, price_data, init_cash, fees, indicators,
                   bar, cash, position, trades, closes, result, sg,
                   kwargs, engine, timestamps, settings_freq, first_run>>

NextService == AnalyzeStrategy \/ CalculateIndicators \/ AnalyzeSignals

SpecService == InitService /\ [][NextService]_vars

----------------------------------------------------------------------------
(* builders.py: the strategies of StrategyBuilder, run through the engine *)

macd_momentum(fast_period, slow_period, signal_period) ==
    [indicators |->
        <<[name |-> "macd", type |-> "MACD",
           params |-> [cls |-> "MACDConfig", fast |-> fast_period,
                       slow |-> slow_period, signal |-> signal_period]]>>,
     crossover_rules |->
        <<[name |-> "macd_entry", fast_indicator |-> "macd", slow_indicator |-> "macd",
           direction |-> "above", signal_type |-> "entry"],
          [name |-> "macd_exit", fast_indicator |-> "macd", slow_indicator |-> "macd",
           direction |-> "below", signal_type |-> "exit"]>>,
     threshold_rules |-> <<>>]

rsi_momentum(rsi_period, momentum_threshold) ==
    [indicators |->
        <<[name |-> "rsi", type |-> "RSI",
           params |-> [cls |-> "RSIConfig", window |-> rsi_period]]>>,
     crossover_rules |-> <<>>,
     threshold_rules |->
        <<[name |-> "rsi_bullish_entry", indicator |-> "rsi",
           threshold |-> momentum_threshold, condition |-> "above",
           signal_type |-> "entry"],
          [name |-> "rsi_bearish_exit", indicator |-> "rsi",
           threshold |-> momentum_threshold, condition |-> "below",
           signal_type |-> "exit"]>>]

BuilderStrategies ==
    {macd_momentum(2, 3, 2)} \cup {rsi_momentum(w, Num(50)) : w \in {2, 3}}

\* price series of 1 to SeriesLen + 1 points over one more price level
BuilderPriceSeries ==
    UNION {[1..n -> {Num(p) : p \in 1..(MaxPrice + 1)}] : n \in 1..(SeriesLen + 1)}

InitBuilders ==
    /\ definition \in BuilderStrategies
    /\ price_data \in BuilderPriceSeries
    /\ timestamps = [i \in 1..Len(price_data) |-> i]
    /\ settings_freq = "None"
    /\ first_run = NoRun
    /\ init_cash = Num(1000)
    /\ fees = Num(0)
    /\ pc = "calculate_indicators"
    /\ indicators = EmptyDict
    /\ signals = EmptyDict
    /\ entries = <<>>
    /\ exits = <<>>
    /\ bar = 1
    /\ cash = init_cash
    /\ position = Num(0)
    /\ trades = <<>>
    /\ closes = 0
    /\ result = NoResult
    /\ sg = NoCall
    /\ kwargs = NoDefinition
    /\ engine = EmptyDict

SpecBuilders == InitBuilders /\ [][Next]_vars

----------------------------------------------------------------------------
(* core.py: TechnicalAnalysisEngine.analyze_symbol on a configuration     *)
(* dict.  A dict is a function from the keys it holds.                    *)

\* d.get(key, default)
Get(d, key, default) == IF key \in DOMAIN d THEN d[key] ELSE default

\* class Config: extra = "forbid": a keyword that is no field of the class
Forbidden(kw, fields) == \E k \in DOMAIN kw : k \notin fields \cup {"cls"}

\* a conversion that falls back to EMA for a value outside the enum
ParseIndicatorType_default(value) == IF value \in IndicatorType THEN value ELSE "EMA"

\* IndicatorType(value): ValueError for a value outside the enum
ParseIndicatorType(value) == IF value \in IndicatorType THEN value ELSE "ValueError"

Built(ind) == [raised |-> "none", ind |-> ind]

Raises(error) == [raised |-> error, ind |-> <<>>]

\* one pass of the indicator loop of _build_strategy_from_config
BuildIndicator(ind_config) ==
    LET ind_type == ParseIndicatorType(ind_config.type)
        window == Get(ind_config, "period", Get(ind_config, "window", 20))
        Definition(params) ==
            Built([name |-> ind_config.name, type |-> ind_type, params |-> params])
    IN CASE ind_type = "ValueError" -> Raises("ValueError")
         [] ind_type = "EMA" ->
                LET params == [cls |-> "EMAConfig", window |-> window]
                IN IF EMAConfig(params) THEN Definition(params)
                   ELSE Raises("ValidationError")
         [] ind_type = "SMA" ->
                LET params == [cls |-> "SMAConfig", window |-> window]
                IN IF SMAConfig(params) THEN Definition(params)
                   ELSE Raises("ValidationError")
         [] ind_type = "RSI" ->
                LET kw == [cls |-> "RSIConfig", period |-> Get(ind_config, "period", 14)]
                    params == [cls |-> "RSIConfig", window |-> 14]
                IN IF ~Forbidden(kw, {"window"}) /\ RSIConfig(params)
                   THEN Definition(params)
                   ELSE Raises("ValidationError")
         [] ind_type = "MACD" ->
                LET params == [cls |-> "MACDConfig",
                               fast |-> Get(ind_config, "fast", 12),
                               slow |-> Get(ind_config, "slow", 26),
                               signal |-> Get(ind_config, "signal", 9)]
                IN IF MACDConfig(params) THEN Definition(params)
                   ELSE Raises("ValidationError")

\* the loop stops at the first entry that raises
RECURSIVE BuildIndicators(_, _, _)
BuildIndicators(ind_configs, i, inds) ==
    IF i > Len(ind_configs) THEN [raised |-> "none", inds |-> inds]
    ELSE LET built == BuildIndicator(ind_configs[i])
         IN IF built.raised # "none" THEN [raised |-> built.raised, inds |-> inds]
            ELSE BuildIndicators(ind_configs, i + 1, Append(inds, built.ind))

\* SignalType.ENTRY if rule["signal_type"] in ["buy", "entry"] else SignalType.EXIT
core_signal_type(signal_type_str) ==
    IF signal_type_str \in {"buy", "entry"} THEN "entry" ELSE "exit"

BuildCrossoverRules(rules) ==
    [i \in DOMAIN rules |->
        [name |-> rules[i].name, fast_indicator |-> rules[i].fast_indicator,
         slow_indicator |-> rules[i].slow_indicator, direction |-> rules[i].direction,
         signal_type |-> core_signal_type(rules[i].signal_type)]]

BuildThresholdRules(rules) ==
    [i \in DOMAIN rules |->
        [name |-> rules[i].name, indicator |-> rules[i].indicator,
         threshold |-> rules[i].threshold, condition |-> rules[i].condition,
         signal_type |-> core_signal_type(rules[i].signal_type)]]

\* _build_strategy_from_config: the indicators, the rules, then StrategyDefinition(...)
build_strategy_from_config(config) ==
    LET built == BuildIndicators(config.indicators, 1, <<>>)
        strategy == [indicators |-> built.inds,
                     crossover_rules |-> BuildCrossoverRules(config.crossover_rules),
                     threshold_rules |-> BuildThresholdRules(config.threshold_rules)]
    IN IF built.raised # "none" THEN [raised |-> built.raised, strategy |-> NoDefinition]
       ELSE IF ~StrategyDefinitionAccepts(strategy)
       THEN [raised |-> "ValidationError", strategy |-> NoDefinition]
       ELSE [raised |-> "none", strategy |-> strategy]

\* configuration dicts of the model
DictsOver(keys, values) == UNION {[ks -> values] : ks \in SUBSET keys}

IndicatorConfig(n, ty, d) ==
    [k \in {"name", "type"} \cup DOMAIN d |->
        IF k = "name" THEN n ELSE IF k = "type" THEN ty ELSE d[k]]

ConfigTypes == IndicatorType \cup {"WMA"}

FirstIndicatorConfigs ==
    {IndicatorConfig("a", ty, d) :
        ty \in ConfigTypes, d \in DictsOver({"period", "window"}, {2, 3})}

SecondIndicatorConfigs ==
    {IndicatorConfig("b", ty, [k \in {"period"} |-> 2]) : ty \in {"SMA", "WMA"}}

SignalTypeStrings == {"buy", "long", "entry", "sell", "short", "exit", "hold"}

CrossoverRuleConfigs ==
    [name : {"r2"}, fast_indicator : {"a"}, slow_indicator : {"a"},
     direction : {"above"}, signal_type : {"buy", "sell"}]

ThresholdRuleConfigs ==
    [name : {"r1"}, indicator : {"a"}, threshold : Thresholds,
     condition : {"above"}, signal_type : SignalTypeStrings]

StrategyConfigs ==
    [indicators : {<<x>> : x \in FirstIndicatorConfigs}
                      \cup {<<x, y>> : x \in FirstIndicatorConfigs,
                                       y \in SecondIndicatorConfigs},
     crossover_rules : {<<>>} \cup {<<r>> : r \in CrossoverRuleConfigs},
     threshold_rules : {<<>>} \cup {<<r>> : r \in ThresholdRuleConfigs}]

\* the price series the data service returns
FetchedPriceSeries == {p \in PriceSeries : p[1] = Num(1) /\ p[2] = Num(MaxPrice)}

InitCore ==
    /\ kwargs \in StrategyConfigs
    /\ price_data \in FetchedPriceSeries
    /\ timestamps = [i \in 1..SeriesLen |-> i]
    /\ settings_freq = "None"
    /\ first_run = NoRun
    /\ definition = NoDefinition
    /\ pc = "analyze_symbol"
    /\ engine = EmptyDict
    /\ init_cash = Num(1000)
    /\ fees = Num(0)
    /\ indicators = EmptyDict
    /\ signals = EmptyDict
    /\ entries = <<>>
    /\ exits = <<>>
    /\ bar = 1
    /\ cash = init_cash
    /\ position = Num(0)
    /\ trades = <<>>
    /\ closes = 0
    /\ result = NoResult
    /\ sg = NoCall

\* analyze_symbol up to _run_analysis: the strategy is built before any data is used
BuildStrategyFromConfig ==
    /\ pc = "analyze_symbol"
    /\ LET built == build_strategy_from_config(kwargs)
       IN /\ definition' = built.strategy
          /\ pc' = IF built.raised = "none" THEN "run_analysis" ELSE built.raised
    /\ UNCHANGED <<price_data, init_cash, fees, indicators, signals,
                   entries, exits, bar, cash, position, trades, closes, result, sg,
                   kwargs, engine, timestamps, settings_freq, first_run>>

\* _run_analysis: the engine, the indicators, and the signals when there is a rule
RunAnalysis ==
    /\ pc = "run_analysis"
    /\ LET setup == setup_indicators(definition)
           inds == calculate_indicators(definition, price_data)
           sigs == generate_signals(definition, inds)
       IN IF setup.raised
          THEN pc' = "AttributeError" /\ UNCHANGED <<engine, indicators, signals, entries, exits>>
          ELSE /\ engine' = setup.objs
               /\ indicators' = inds
               /\ IF definition.crossover_rules # <<>> \/ definition.threshold_rules # <<>>
                  THEN /\ signals' = sigs
                       /\ entries' = get_entry_signals(definition, sigs)
                       /\ exits' = get_exit_signals(definition, sigs)
                  ELSE /\ signals' = EmptyDict
                       /\ UNCHANGED <<entries, exits>>
               /\ pc' = "analysed"
    /\ UNCHANGED <<definition, price_data, init_cash, fees,
                   bar, cash, position, trades, closes, result, sg,
                   kwargs, timestamps, settings_freq, first_run>>

\* backtest_symbol after analyze_symbol: with entry and exit signals the strategy is
\* backtested and the metrics read; reading the Sharpe ratio first stores 'D' in
\* vbt.settings.array_wrapper['freq']
BacktestSymbol ==
    /\ pc = "analysed"
    /\ IF entries # <<>> /\ exits # <<>>
       THEN LET acct == RunBars(init_account(init_cash), price_data,
                                entries, exits, fees, 1, Len(price_data))
            IN /\ cash' = acct.cash
               /\ position' = acct.position
               /\ trades' = acct.trades
               /\ result' = [total_return |->
                                 RSub(RDiv(final_value(acct, price_data), init_cash), Num(1)),
                             final_value |-> final_value(acct, price_data),
                             total_trades |-> Len(records_readable(acct, price_data))]
               /\ settings_freq' = "D"
       ELSE UNCHANGED <<cash, position, trades, result, settings_freq, first_run>>
    /\ pc' = "backtested"
    /\ UNCHANGED <<definition, price_data, init_cash, fees, indicators, signals,
                   entries, exits, bar, closes, sg, kwargs, engine, timestamps,
                   first_run>>

NextCore == BuildStrategyFromConfig \/ RunAnalysis \/ BacktestSymbol

SpecCore == InitCore /\ [][NextCore]_vars

----------------------------------------------------------------------------
(* app/models.py: DynamicStrategyDefinition.to_typed_definition *)

\* model_post_init: the convenience fields fill the keys params does not hold
model_post_init(ind) ==
    [name |-> ind.name, type |-> ind.type, fields |-> ind.fields,
     params |-> [k \in DOMAIN ind.params \cup DOMAIN ind.fields |->
                    IF k \in DOMAIN ind.params THEN ind.params[k] ELSE ind.fields[k]]]

\* params.get(first) or params.get(second, default): the first key when it holds a
\* non-zero value, else the second key, else the default
GetOr(params, first, second, default) ==
    IF first \in DOMAIN params /\ params[first] # 0 THEN params[first]
    ELSE Get(params, second, default)

\* DynamicIndicatorDefinition.to_typed_definition on the merged params
to_typed_indicator(ind) ==
    LET params == model_post_init(ind).params
        Definition(typed_params) ==
            Built([name |-> ind.name, type |-> ind.type, params |-> typed_params])
    IN CASE ind.type = "EMA" ->
                LET typed == [cls |-> "EMAConfig",
                              window |-> GetOr(params, "window", "period", 20)]
                IN IF EMAConfig(typed) THEN Definition(typed)
                   ELSE Raises("ValidationError")
         [] ind.type = "SMA" ->
                LET typed == [cls |-> "SMAConfig",
                              window |-> GetOr(params, "window", "period", 20)]
                IN IF SMAConfig(typed) THEN Definition(typed)
                   ELSE Raises("ValidationError")
         [] ind.type = "RSI" ->
                LET typed == [cls |-> "RSIConfig",
                              window |-> GetOr(params, "window", "period", 14)]
                IN IF RSIConfig(typed) THEN Definition(typed)
                   ELSE Raises("ValidationError")
         [] ind.type = "MACD" ->
                LET typed == [cls |-> "MACDConfig",
                              fast |-> GetOr(params, "fast", "fast_period", 12),
                              slow |-> GetOr(params, "slow", "slow_period", 26),
                              signal |-> GetOr(params, "signal", "signal_period", 9)]
                IN IF MACDConfig(typed) THEN Definition(typed)
                   ELSE Raises("ValidationError")

RECURSIVE ToTypedIndicators(_, _, _)
ToTypedIndicators(inds, i, typed) ==
    IF i > Len(inds) THEN [raised |-> "none", inds |-> typed]
    ELSE LET built == to_typed_indicator(inds[i])
         IN IF built.raised # "none" THEN [raised |-> built.raised, inds |-> typed]
            ELSE ToTypedIndicators(inds, i + 1, Append(typed, built.ind))

\* map_signal_type: buy/long/entry and sell/short/exit, else SignalType(value),
\* a ValueError for any other string
map_signal_type(signal_type_str) ==
    IF signal_type_str \in {"buy", "long", "entry"} THEN "entry"
    ELSE IF signal_type_str \in {"sell", "short", "exit"} THEN "exit"
    ELSE "ValueError"

\* DynamicStrategyDefinition.to_typed_definition
to_typed_definition(dynamic) ==
    LET built == ToTypedIndicators(dynamic.indicators, 1, <<>>)
        strategy ==
            [indicators |-> built.inds,
             crossover_rules |->
                 [i \in DOMAIN dynamic.crossover_rules |->
                     [name |-> dynamic.crossover_rules[i].name,
                      fast_indicator |-> dynamic.crossover_rules[i].fast_indicator,
                      slow_indicator |-> dynamic.crossover_rules[i].slow_indicator,
                      direction |-> dynamic.crossover_rules[i].direction,
                      signal_type |->
                          map_signal_type(dynamic.crossover_rules[i].signal_type)]],
             threshold_rules |->
                 [i \in DOMAIN dynamic.threshold_rules |->
                     [name |-> dynamic.threshold_rules[i].name,
                      indicator |-> dynamic.threshold_rules[i].indicator,
                      threshold |-> dynamic.threshold_rules[i].threshold,
                      condition |-> dynamic.threshold_rules[i].condition,
                      signal_type |->
                          map_signal_type(dynamic.threshold_rules[i].signal_type)]]]
    IN IF built.raised # "none" THEN [raised |-> built.raised, strategy |-> NoDefinition]
       ELSE IF \/ \E i \in DOMAIN dynamic.crossover_rules :
                      map_signal_type(dynamic.crossover_rules[i].signal_type) = "ValueError"
               \/ \E i \in DOMAIN dynamic.threshold_rules :
                      map_signal_type(dynamic.threshold_rules[i].signal_type) = "ValueError"
       THEN [raised |-> "ValueError", strategy |-> NoDefinition]
       ELSE IF ~StrategyDefinitionAccepts(strategy)
       THEN [raised |-> "ValidationError", strategy |-> NoDefinition]
       ELSE [raised |-> "none", strategy |-> strategy]

\* requests of the model: one indicator with nested params and convenience fields
DynamicIndicators ==
    [name : {"a"}, type : {"EMA", "SMA", "RSI"},
     params : DictsOver({"period", "window"}, {5, 10}),
     fields : DictsOver({"period", "window"}, {5, 10})]
        \cup [name : {"a"}, type : {"MACD"},
              params : DictsOver({"fast", "fast_period"}, {5, 10}),
              fields : DictsOver({"fast", "fast_period"}, {5, 10})]

DynamicStrategies ==
    [indicators : {<<x>> : x \in DynamicIndicators},
     crossover_rules : {<<>>} \cup {<<r>> : r \in CrossoverRuleConfigs},
     threshold_rules : {<<>>} \cup {<<r>> : r \in ThresholdRuleConfigs}]

InitDynamic ==
    /\ kwargs \in DynamicStrategies
    /\ definition = NoDefinition
    /\ pc = "to_typed_definition"
    /\ price_data = <<>>
    /\ timestamps = <<>>
    /\ settings_freq = "None"
    /\ first_run = NoRun
    /\ engine = EmptyDict
    /\ init_cash = Num(0)
    /\ fees = Num(0)
    /\ indicators = EmptyDict
    /\ signals = EmptyDict
    /\ entries = <<>>
    /\ exits = <<>>
    /\ bar = 1
    /\ cash = Num(0)
    /\ position = Num(0)
    /\ trades = <<>>
    /\ closes = 0
    /\ result = NoResult
    /\ sg = NoCall

ToTypedDefinition ==
    /\ pc = "to_typed_definition"
    /\ LET typed == to_typed_definition(kwargs)
       IN /\ definition' = typed.strategy
          /\ pc' = IF typed.raised = "none" THEN "typed" ELSE typed.raised
    /\ UNCHANGED <<price_data, init_cash, fees, indicators, signals,
                   entries, exits, bar, cash, position, trades, closes, result, sg,
                   kwargs, engine, timestamps, settings_freq, first_run>>

NextDynamic == ToTypedDefinition

SpecDynamic == InitDynamic /\ [][NextDynamic]_vars

----------------------------------------------------------------------------
(* Properties *)

Defined(x) == x[2] # 0
Greater(x, y) == x[1] * y[2] > y[1] * x[2]
Less(x, y) == x[1] * y[2] < y[1] * x[2]
Equal(x, y) == x[1] * y[2] = y[1] * x[2]

\* position i >= 2 of the direct call has fast and slow defined at i and i - 1
FourDefined(i) ==
    /\ Defined(sg.fast_values[i]) /\ Defined(sg.slow_values[i])
    /\ Defined(sg.fast_values[i - 1]) /\ Defined(sg.slow_values[i - 1])

\* C1: wherever fast and slow are defined at t and t-1, crossover_signal is true at
\* t exactly when fast[t] > slow[t] and fast[t-1] <= slow[t-1] (ABOVE), or when
\* fast[t] < slow[t] and fast[t-1] >= slow[t-1] (BELOW); a sustained state is no cross.
C1_CrossoverIsStrictCross ==
    sg.fn = "crossover_signal" =>
        \A i \in 2..Len(sg.fast_values) :
            FourDefined(i) =>
                LET f == sg.fast_values[i]
                    sl == sg.slow_values[i]
                    fp == sg.fast_values[i - 1]
                    sp == sg.slow_values[i - 1]
                IN sg.out[i] = IF sg.direction = "above"
                               THEN Greater(f, sl) /\ ~Greater(fp, sp)
                               ELSE Less(f, sl) /\ ~Less(fp, sp)

\* an ABOVE call that crosses at one position and stays above at the next
C1_Witness ==
    /\ sg.fn = "crossover_signal"
    /\ sg.direction = "above"
    /\ \E i \in 2..(Len(sg.fast_values) - 1) :
          /\ FourDefined(i) /\ FourDefined(i + 1)
          /\ sg.out[i]
          /\ Greater(sg.fast_values[i + 1], sg.slow_values[i + 1])
          /\ ~sg.out[i + 1]

\* C10: wherever the value is defined, threshold_signal is true at t exactly when
\* value[t] > threshold (ABOVE) or value[t] < threshold (BELOW): at every such t,
\* not only at the first one, and never when the value equals the threshold.
C10_ThresholdIsLevelTest ==
    sg.fn = "threshold_signal" =>
        \A i \in 1..Len(sg.fast_values) :
            Defined(sg.fast_values[i]) =>
                sg.out[i] = IF sg.direction = "above"
                            THEN Greater(sg.fast_values[i], sg.threshold)
                            ELSE Less(sg.fast_values[i], sg.threshold)

\* an ABOVE call whose value sits on the threshold, then above it on two positions
C10_Witness ==
    /\ sg.fn = "threshold_signal"
    /\ sg.direction = "above"
    /\ \E i \in 1..(Len(sg.fast_values) - 2) :
          /\ Defined(sg.fast_values[i])
          /\ Equal(sg.fast_values[i], sg.threshold) /\ ~sg.out[i]
          /\ Defined(sg.fast_values[i + 1]) /\ sg.out[i + 1]
          /\ Defined(sg.fast_values[i + 2]) /\ sg.out[i + 2]

AfterGenerate == pc \in {"get_entry_signals", "get_exit_signals", "from_signals",
                         "extract", "done"}
AfterEntry == pc \in {"get_exit_signals", "from_signals", "extract", "done"}
AfterExit == pc \in {"from_signals", "extract", "done"}

IsCrossover(rule) == "fast_indicator" \in DOMAIN rule

\* the boolean series one rule evaluates to on the calculated indicators
RuleOutput(rule) ==
    IF IsCrossover(rule)
    THEN [i \in 1..Len(price_data) |->
            LET f == indicators[rule.fast_indicator]
                sl == indicators[rule.slow_indicator]
            IN /\ i > 1
               /\ Defined(f[i]) /\ Defined(sl[i]) /\ Defined(f[i - 1]) /\ Defined(sl[i - 1])
               /\ IF rule.direction = "above"
                  THEN Greater(f[i], sl[i]) /\ ~Greater(f[i - 1], sl[i - 1])
                  ELSE Less(f[i], sl[i]) /\ ~Less(f[i - 1], sl[i - 1])]
    ELSE [i \in 1..Len(price_data) |->
            LET v == indicators[rule.indicator]
            IN /\ Defined(v[i])
               /\ IF rule.condition = "above"
                  THEN Greater(v[i], rule.threshold)
                  ELSE Less(v[i], rule.threshold)]

\* C2: with at least one ENTRY rule, the combined entry signal is true at t exactly
\* when the output of every ENTRY rule is true at t.
C2_EntryIsConjunction ==
    (AfterEntry /\ entry_rules(definition) # <<>>) =>
        \A i \in 1..Len(price_data) :
            entries[i] = \A k \in DOMAIN entry_rules(definition) :
                            RuleOutput(entry_rules(definition)[k])[i]

\* C3: with at least one EXIT rule, the combined exit signal is true at t exactly
\* when the output of at least one EXIT rule is true at t.
C3_ExitIsDisjunction ==
    (AfterExit /\ exit_rules(definition) # <<>>) =>
        \A i \in 1..Len(price_data) :
            exits[i] = \E k \in DOMAIN exit_rules(definition) :
                          RuleOutput(exit_rules(definition)[k])[i]

\* C8: generate_signals returns one series per declared rule, and the series stored
\* under a rule's name is the output of that rule.
C8_OneSeriesPerRule ==
    AfterGenerate =>
        /\ Cardinality(DOMAIN signals) =
               Len(definition.crossover_rules) + Len(definition.threshold_rules)
        /\ \A k \in DOMAIN AllRules(definition) :
               signals[AllRules(definition)[k].name] = RuleOutput(AllRules(definition)[k])

AllFalseOnPriceIndex(series) ==
    /\ DOMAIN series = 1..Len(price_data)
    /\ \A i \in DOMAIN series : series[i] = FALSE

\* C9: without ENTRY rules the combined entry signal is false at every timestamp,
\* without EXIT rules the combined exit signal is, and computing them never fails,
\* also for a definition that declares no rule at all.
C9_NoRulesNoSignals ==
    /\ pc # "failed"
    /\ (AfterEntry /\ entry_rules(definition) = <<>>) => AllFalseOnPriceIndex(entries)
    /\ (AfterExit /\ exit_rules(definition) = <<>>) => AllFalseOnPriceIndex(exits)

\* the rule whose series generate_signals leaves under a name: the last one written
StoredRule(name) ==
    LET rules == AllRules(definition)
        k == CHOOSE j \in DOMAIN rules :
                /\ rules[j].name = name
                /\ \A m \in DOMAIN rules : m > j => rules[m].name # name
    IN rules[k]

\* some indicator value the rule consults at position i is NaN or does not exist
ConsultsUndefined(rule, i) ==
    IF IsCrossover(rule)
    THEN \/ i = 1
         \/ ~Defined(indicators[rule.fast_indicator][i])
         \/ ~Defined(indicators[rule.slow_indicator][i])
         \/ ~Defined(indicators[rule.fast_indicator][i - 1])
         \/ ~Defined(indicators[rule.slow_indicator][i - 1])
    ELSE ~Defined(indicators[rule.indicator][i])

NumOpen == Cardinality({k \in DOMAIN trades : trades[k].status = "Open"})

Simulating == pc \in {"from_signals", "extract", "done"}

\* FLAT without a position, or LONG with exactly one open trade (the last record)
AccountOK ==
    /\ position[2] # 0 /\ position[1] >= 0
    /\ NumOpen = IF IsLong(position) THEN 1 ELSE 0
    /\ IsLong(position) => trades[Len(trades)].status = "Open"

\* C4: at every point of the pass the account is FLAT or LONG with exactly one
\* position, and a bar whose entry signal is true while LONG opens nothing and
\* changes neither cash nor position size.
C4_SinglePosition ==
    /\ [](Simulating => AccountOK)
    /\ [][(pc = "from_signals" /\ IsLong(position) /\ entries[bar])
             => (cash' = cash /\ position' = position /\ Len(trades') = Len(trades)
                 /\ NumOpen' = 1)]_vars

\* the bar just processed carried an entry signal while the account was LONG
C4_Witness ==
    /\ Simulating /\ bar > 2
    /\ entries[bar - 1]
    /\ IsLong(position)
    /\ trades[Len(trades)].entry_idx < bar - 1

\* C5: while FLAT a true entry signal opens a position at the bar's price whatever
\* the exit signal is, and a true exit signal without an entry signal changes nothing.
C5_FlatEntryAlwaysOpens ==
    /\ [][(pc = "from_signals" /\ ~IsLong(position) /\ entries[bar])
             => /\ IsLong(position')
                /\ Len(trades') = Len(trades) + 1
                /\ trades'[Len(trades')].entry_price = price_data[bar]]_vars
    /\ [][(pc = "from_signals" /\ ~IsLong(position) /\ exits[bar] /\ ~entries[bar])
             => UNCHANGED <<cash, position, trades>>]_vars

\* C6: the reported total_trades is the number of LONG -> FLAT transitions of the run.
C6_TotalTradesCountsClosedTrades ==
    pc = "done" => result.total_trades = closes

\* C11: a crossover signal is never true at the first index of the series, for
\* every pair of series and both directions.
C11_NoCrossAtFirstIndex ==
    sg.fn = "crossover_signal" => sg.out[1] = FALSE

\* calls of both kinds whose first position already satisfies the level condition
C11_Witness ==
    /\ sg.fn = "crossover_signal"
    /\ Defined(sg.fast_values[1]) /\ Defined(sg.slow_values[1])
    /\ IF sg.direction = "above"
       THEN Greater(sg.fast_values[1], sg.slow_values[1])
       ELSE Less(sg.fast_values[1], sg.slow_values[1])
    /\ sg.out[1] = FALSE
    /\ \E i \in 2..Len(sg.out) : sg.out[i]

ClosedTrades == {k \in DOMAIN trades : trades[k].status = "Closed"}
WinningClosedTrades == {k \in ClosedTrades : Greater(trades[k].pnl, Num(0))}

\* C12: the reported win rate is the fraction of closed trades with positive
\* realized P&L, and it is the number 0 when the run closed no trade.
C12_WinRateOverClosedTrades ==
    pc = "done" =>
        result.win_rate = IF ClosedTrades = {} THEN Num(0)
                          ELSE Norm(Cardinality(WinningClosedTrades),
                                    Cardinality(ClosedTrades))

\* cash plus the open position valued at the last price of the series
FinalEquity == RAdd(cash, RMul(position, price_data[Len(price_data)]))

OneRoundTrip == Len(trades) = 1 /\ trades[1].status = "Closed"

\* C13: total return is final_equity / initial_cash - 1, and without commission a
\* run of exactly one round trip entered at p_e and left at p_x ends with the
\* equity initial_cash * p_x / p_e.
C13_TotalReturn ==
    pc = "done" =>
        /\ result.total_return = RSub(RDiv(FinalEquity, init_cash), Num(1))
        /\ (fees = Num(0) /\ OneRoundTrip) =>
              LET p_e == trades[1].entry_price
                  p_x == trades[1].exit_price
              IN /\ result.final_value = RDiv(RMul(init_cash, p_x), p_e)
                 /\ result.total_return = RSub(RDiv(p_x, p_e), Num(1))

\* a finished commission-free run of one round trip that made a profit
C13_Witness ==
    /\ pc = "done" /\ fees = Num(0) /\ OneRoundTrip
    /\ Greater(trades[1].exit_price, trades[1].entry_price)
    /\ Greater(result.total_return, Num(0))

\* the price series that agree with data on the positions 1..t
AgreeingSeries(data, t) ==
    {[i \in 1..Len(data) |-> IF i <= t THEN data[i] ELSE suffix[i - t]] :
        suffix \in [1..(Len(data) - t) -> Prices]}

\* on the positions 1..t, the run on other gives the indicators, rule outputs,
\* combined signals and account that the current run has after t bars
SameUpTo(other, t) ==
    LET inds == calculate_indicators(definition, other)
        sigs == generate_signals(definition, inds)
        en == get_entry_signals(definition, sigs)
        ex == get_exit_signals(definition, sigs)
    IN /\ \A n \in DOMAIN indicators : \A i \in 1..t : inds[n][i] = indicators[n][i]
       /\ \A n \in DOMAIN signals : \A i \in 1..t : sigs[n][i] = signals[n][i]
       /\ \A i \in 1..t : en[i] = entries[i] /\ ex[i] = exits[i]
       /\ RunBars(Account(init_cash, Num(0), <<>>), other, en, ex, fees, 1, t)
              = Account(cash, position, trades)

\* C14: no look-ahead. After t bars, any price series that agrees with the run's
\* series on the timestamps up to t yields the same indicator values, rule outputs,
\* combined signals and portfolio state up to t.
C14_NoLookAhead ==
    pc = "from_signals" =>
        \A other \in AgreeingSeries(price_data, bar - 1) : SameUpTo(other, bar - 1)

\* a run in the middle of the pass, already LONG, whose remaining prices can differ
C14_Witness ==
    /\ pc = "from_signals" /\ bar > 2 /\ bar <= Len(price_data)
    /\ IsLong(position)
    /\ \E other \in AgreeingSeries(price_data, bar - 1) :
          other # price_data /\ get_entry_signals(definition,
              generate_signals(definition, calculate_indicators(definition, other)))
                 # entries

\* StrategyDefinition(**kwargs) has returned or raised
Attempted == pc \in {"ValidationError", "StrategyEngine", "engine_ready", "AttributeError"}

\* StrategyDefinition(**kwargs) has returned a definition
Constructed == pc \in {"StrategyEngine", "engine_ready", "AttributeError"}

Resolves(def, name) == \E i \in DOMAIN def.indicators : def.indicators[i].name = name

ReferencesResolve(def) ==
    /\ \A i \in DOMAIN def.crossover_rules :
          /\ Resolves(def, def.crossover_rules[i].fast_indicator)
          /\ Resolves(def, def.crossover_rules[i].slow_indicator)
    /\ \A i \in DOMAIN def.threshold_rules :
          Resolves(def, def.threshold_rules[i].indicator)

\* C15: a constructed StrategyDefinition has every rule reference resolved by one
\* of its indicators; construction from arguments with an unresolved reference
\* ends in a validation error and leaves no definition.
C15_ReferentialIntegrity ==
    /\ Constructed => definition = kwargs /\ ReferencesResolve(definition)
    /\ (Attempted /\ ~ReferencesResolve(kwargs)) =>
           pc = "ValidationError" /\ definition = NoDefinition

\* a definition constructed with one rule of each kind, on two indicators
C15_Witness ==
    /\ Constructed
    /\ Len(definition.crossover_rules) = 1 /\ Len(definition.threshold_rules) = 1
    /\ definition.crossover_rules[1].fast_indicator
           # definition.crossover_rules[1].slow_indicator

DistinctNames(inds) ==
    \A i, j \in DOMAIN inds : i # j => inds[i].name # inds[j].name

\* C16: a constructed StrategyDefinition has at least one indicator and pairwise
\* distinct indicator names; construction from an empty list or from two
\* indicators of one name ends in a validation error.
C16_NonEmptyUniqueIndicators ==
    /\ Constructed =>
           Len(definition.indicators) >= 1 /\ DistinctNames(definition.indicators)
    /\ (Attempted /\ (kwargs.indicators = <<>> \/ ~DistinctNames(kwargs.indicators)))
           => pc = "ValidationError"

\* a definition constructed from two indicators of different names
C16_Witness ==
    /\ Constructed
    /\ Len(definition.indicators) = 2
    /\ definition.indicators[1].name # definition.indicators[2].name

\* the parameters of ind lie in the bounds documented for the kind ind.type
WithinBoundsOfKind(ind) ==
    CASE ind.type \in {"EMA", "SMA"} ->
             "window" \in DOMAIN ind.params /\ InRange(ind.params.window, 2, 200)
      [] ind.type = "RSI" ->
             "window" \in DOMAIN ind.params /\ InRange(ind.params.window, 2, 100)
      [] ind.type = "MACD" ->
             /\ {"fast", "slow", "signal"} \subseteq DOMAIN ind.params
             /\ InRange(ind.params.fast, 2, 50)
             /\ InRange(ind.params.slow, 2, 100)
             /\ InRange(ind.params.signal, 2, 50)

\* C17: every indicator of a constructed StrategyDefinition has parameters within
\* the bounds of its own kind (window 2..200 for EMA and SMA, 2..100 for RSI,
\* fast/slow/signal for MACD).
C17_ParamsWithinBoundsOfKind ==
    Constructed =>
        \A i \in DOMAIN definition.indicators :
            WithinBoundsOfKind(definition.indicators[i])

\* C18: for a constructed StrategyDefinition, constructing the StrategyEngine
\* (create_indicator for each indicator) does not fail because of the indicator
\* definitions.
C18_DefectsNeverReachEngine == Constructed => pc # "AttributeError"

IsMACDConfig(ind) == ind.params.cls = "MACDConfig"

\* C19: constructing MACD parameters with slow <= fast ends in a validation
\* error, so every constructed MACDConfig has slow > fast.
C19_MACDSlowAboveFast ==
    pc # "IndicatorParams" =>
        \A i \in DOMAIN kwargs.indicators :
            IsMACDConfig(kwargs.indicators[i]) =>
                /\ kwargs.indicators[i].params.slow <= kwargs.indicators[i].params.fast
                       => pc = "ValidationError"
                /\ pc # "ValidationError"
                       => kwargs.indicators[i].params.slow
                              > kwargs.indicators[i].params.fast

\* MACD parameters fast = 12, slow = 26 constructed, and used by a MACD indicator
C19_Witness ==
    /\ pc = "engine_ready"
    /\ \E i \in DOMAIN definition.indicators :
          /\ IsMACDConfig(definition.indicators[i])
          /\ definition.indicators[i].type = "MACD"
          /\ definition.indicators[i].params.fast = 12
          /\ definition.indicators[i].params.slow = 26

\* fewer than 2 points, or timestamps that do not strictly increase
IsInvalidPriceSeries(ts, prices) ==
    \/ Len(prices) < 2
    \/ \E i \in 1..(Len(ts) - 1) : ts[i] >= ts[i + 1]

\* C20: a price series with fewer than 2 points or with timestamps that do not
\* strictly increase is rejected before any indicator is computed: the analysis
\* stops with an error, and no indicator value and no signal is ever derived
\* from the series.
C20_InvalidSeriesRejected ==
    IsInvalidPriceSeries(timestamps, price_data) =>
        /\ pc \in {"analyze_strategy", "calculate_indicators", "InvalidPriceSeries",
                  "failed"}
        /\ indicators = EmptyDict
        /\ entries = <<>> /\ exits = <<>>

AfterCalculate == pc \in {"generate_signals", "get_entry_signals", "get_exit_signals",
                          "from_signals", "extract", "done"}

IndicatorDef(name) ==
    definition.indicators[CHOOSE k \in DOMAIN definition.indicators :
                              definition.indicators[k].name = name]

\* C21: every calculated indicator series, every rule signal series and the two
\* combined signal series have the index of the price series; the positions before
\* the window is full are kept, as NaN in indicators and as booleans in signals.
C21_IndexAlignment ==
    /\ AfterCalculate =>
          /\ DOMAIN indicators = IndicatorNames(definition.indicators)
          /\ \A n \in DOMAIN indicators :
                /\ DOMAIN indicators[n] = DOMAIN price_data
                /\ \A i \in DOMAIN price_data :
                      i < IndicatorDef(n).params.window => IsNaN(indicators[n][i])
    /\ AfterGenerate =>
          \A n \in DOMAIN signals :
              /\ DOMAIN signals[n] = DOMAIN price_data
              /\ \A i \in DOMAIN price_data : signals[n][i] \in BOOLEAN
    /\ AfterEntry => DOMAIN entries = DOMAIN price_data
    /\ AfterExit => DOMAIN exits = DOMAIN price_data

\* a run with an EMA and an SMA in warm-up at the first position, defined at the
\* last, and a rule signal that fires
C21_Witness ==
    /\ AfterExit
    /\ \E n \in DOMAIN indicators :
          IndicatorDef(n).type = "EMA" /\ IsNaN(indicators[n][1])
              /\ Defined(indicators[n][Len(price_data)])
    /\ \E n \in DOMAIN signals : signals[n][Len(price_data)]

\* the indicators of kind RSI in the run's definition
RSIIndicators ==
    {k \in DOMAIN definition.indicators : definition.indicators[k].type = "RSI"}

\* C26: every value of an RSI indicator that is not NaN lies in 0..100, and the
\* values of the warm-up period (the first window positions) are NaN.
C26_RSIBounded ==
    AfterCalculate =>
        \A k \in RSIIndicators :
            LET rsi == indicators[definition.indicators[k].name]
                window == definition.indicators[k].params.window
            IN \A i \in DOMAIN rsi :
                  /\ i <= window => IsNaN(rsi[i])
                  /\ Defined(rsi[i]) => NumGe(rsi[i], Num(0)) /\ NumLe(rsi[i], Num(100))

\* an RSI series with a warm-up, a value strictly inside the range and a value at
\* one of its ends
C26_Witness ==
    /\ AfterCalculate
    /\ \E k \in RSIIndicators :
          LET rsi == indicators[definition.indicators[k].name]
          IN /\ IsNaN(rsi[1])
             /\ \E i \in DOMAIN rsi : Greater(rsi[i], Num(0)) /\ Less(rsi[i], Num(100))
             /\ \E i \in DOMAIN rsi : Defined(rsi[i]) /\ Equal(rsi[i], Num(100))

IsMACDMomentum == \E k \in DOMAIN definition.indicators : definition.indicators[k].type = "MACD"

MACDLine ==
    LET params == definition.indicators[1].params
    IN MACD_calculate(price_data, params.fast, params.slow, params.signal)

SignalLine ==
    LET params == definition.indicators[1].params
    IN MACD_signal(price_data, params.fast, params.slow, params.signal)

\* the MACD line is above the signal line at i and was at or below it at i - 1
MACDCrossesAbove(i) ==
    /\ i > 1
    /\ NumGt(MACDLine[i], SignalLine[i])
    /\ NumLe(MACDLine[i - 1], SignalLine[i - 1])

MACDCrossesBelow(i) ==
    /\ i > 1
    /\ NumLt(MACDLine[i], SignalLine[i])
    /\ NumGe(MACDLine[i - 1], SignalLine[i - 1])

\* C28: in the macd_momentum strategy macd_entry is true at t iff the MACD line
\* crosses above the MACD signal line at t, and macd_exit is true at t iff it
\* crosses below it.
C28_MACDRulesCompareSignalLine ==
    (AfterGenerate /\ IsMACDMomentum) =>
        \A i \in DOMAIN price_data :
            /\ signals["macd_entry"][i] <=> MACDCrossesAbove(i)
            /\ signals["macd_exit"][i] <=> MACDCrossesBelow(i)

HasUnsupportedKind(config) ==
    \E i \in DOMAIN config.indicators : config.indicators[i].type \notin IndicatorType

Aliases(field) ==
    CASE field = "window" -> {"window", "period"}
      [] field = "fast" -> {"fast", "fast_period"}

\* the typed parameter of the request's indicator that the aliases can set
TypedField(type) == IF type = "MACD" THEN "fast" ELSE "window"

\* C24: when the nested params object of an indicator entry carries a parameter,
\* under any of its aliases, the typed parameter is a value of the nested object,
\* whatever the top-level convenience fields hold.
C24_NestedParamsTakePrecedence ==
    pc = "typed" =>
        LET ind == kwargs.indicators[1]
            field == TypedField(ind.type)
            nested == {ind.params[k] : k \in Aliases(field) \cap DOMAIN ind.params}
        IN nested # {} => definition.indicators[1].params[field] \in nested

\* C29: _build_strategy_from_config accepts a configuration of supported kinds, and
\* an EMA, SMA or RSI entry with period p gives an indicator with window = p.
C29_RSIDictFormAccepted ==
    (pc # "analyze_symbol" /\ ~HasUnsupportedKind(kwargs)) =>
        /\ pc \in {"run_analysis", "analysed", "backtested"}
        /\ \A i \in DOMAIN kwargs.indicators :
              (kwargs.indicators[i].type \in {"EMA", "SMA", "RSI"}
                   /\ "period" \in DOMAIN kwargs.indicators[i])
                  => definition.indicators[i].params.window
                         = kwargs.indicators[i].period

\* C30: a rule of a strategy built by _build_strategy_from_config has the signal
\* type that to_typed_definition's map_signal_type gives its string, and no
\* strategy is built from a string that map_signal_type does not recognise.
C30_NormalizersAgreeOnSignalType ==
    pc \in {"run_analysis", "analysed", "backtested"} =>
        /\ \A i \in DOMAIN kwargs.threshold_rules :
              /\ map_signal_type(kwargs.threshold_rules[i].signal_type) # "ValueError"
              /\ definition.threshold_rules[i].signal_type
                     = map_signal_type(kwargs.threshold_rules[i].signal_type)
        /\ \A i \in DOMAIN kwargs.crossover_rules :
              /\ map_signal_type(kwargs.crossover_rules[i].signal_type) # "ValueError"
              /\ definition.crossover_rules[i].signal_type
                     = map_signal_type(kwargs.crossover_rules[i].signal_type)

\* C23: no call writes a setting of the process: every step of an analysis or a
\* backtest leaves vbt.settings.array_wrapper['freq'] as it found it.
C23_NoProcessWideState == [][settings_freq' = settings_freq]_vars

\* a constant price series
IsFlat(data) == \A i \in DOMAIN data : data[i] = data[1]

NoneTrue(series) == \A i \in DOMAIN series : series[i] = FALSE

CrossoverOnly(def) == def.crossover_rules # <<>> /\ def.threshold_rules = <<>>

====
